---- MODULE Spec2Model ----
(***************************************************************************)
(* The generation session of src/App.tsx: the React state of the App       *)
(* component (prompt, aspectRatio, isGenerating, history, selectedImage,   *)
(* error), the aiRef credential, the generateContent requests that are     *)
(* awaited, and the handlers that change them.                             *)
(*                                                                         *)
(* Strings that the code inspects (the prompt, which is trimmed) are       *)
(* sequences of characters; strings the code only stores or compares are   *)
(* TLA+ strings.                                                           *)
(***************************************************************************)
EXTENDS Naturals, Sequences, FiniteSets

\* ------------------------------------------------------------- bounds
\* Number of images generated in one session (also the range of the clock).
MaxGenerations == 2
\* Number of generateContent requests awaited at once.
MaxInFlight == 2
\* Longest parts list of a response.
MaxParts == 2

\* ---------------------------------------------------------- constants
NULL == "null"

Whitespace == {" "}

RECURSIVE SeqsUpTo(_, _)
SeqsUpTo(S, n) ==
    IF n = 0 THEN {<<>>}
    ELSE LET shorter == SeqsUpTo(S, n - 1)
         IN  shorter \cup {Append(s, c) : s \in {t \in shorter : Len(t) = n - 1}, c \in S}

\* What the user types in the textarea: nothing, whitespace only, and a text
\* with whitespace around it.
Prompts == {<<>>, <<" ">>, <<" ", "a", " ">>}

ASPECT_RATIOS == {"1:1", "16:9", "9:16", "4:3", "3:4"}

\* What Math.random().toString(36).substring(7) returns: a short token, or
\* the empty string; nothing keeps two calls from returning the same one.
Ids == {"", "k3x9f"}

ConfigError == "API Key not found. Please check your environment variables."
NoImageError == "No image data returned from the model."
FallbackError == "An unexpected error occurred during generation."

\* process.env.GEMINI_API_KEY: unset, empty, or a key.
EnvKeys == {NULL, "", "key"}

\* A part of a response: text, or inline data.
Payloads == {"iVBORw0"}
Parts == {[inlineData |-> NULL]} \cup {[inlineData |-> d] : d \in Payloads}
\* A response: response.candidates?.[0]?.content?.parts is missing
\* (hasParts = FALSE) or a list of parts.
Responses ==
    {[hasParts |-> FALSE, parts |-> <<>>]}
        \cup {[hasParts |-> TRUE, parts |-> p] : p \in SeqsUpTo(Parts, MaxParts)}

\* err.message of a fault: missing, empty, or a description.
FaultMessages == {NULL, "", "rate limited"}

\* ------------------------------------------------------------- state
VARIABLES
    prompt,         \* useState('')
    isGenerating,   \* useState(false)
    aspectRatio,    \* useState('1:1')
    history,        \* useState<GeneratedImage[]>([])
    selectedImage,  \* useState<GeneratedImage | null>(null): <<>> for null,
                    \* <<img>> for an image
    error,          \* useState<string | null>(null)
    aiRef,          \* useRef<GoogleGenAI | null>(null), set by the mount effect
    inflight,       \* awaited generateContent calls, each with the prompt and
                    \* aspectRatio its handleGenerate closure captured
    now             \* Date.now(), advancing with each image created

vars == <<prompt, isGenerating, aspectRatio, history, selectedImage, error,
          aiRef, inflight, now>>

\* ----------------------------------------------------- pure functions
\* String.prototype.trim
RECURSIVE TrimStart(_)
TrimStart(s) ==
    IF s # <<>> /\ Head(s) \in Whitespace THEN TrimStart(Tail(s)) ELSE s

RECURSIVE TrimEnd(_)
TrimEnd(s) ==
    IF s # <<>> /\ s[Len(s)] \in Whitespace
    THEN TrimEnd(SubSeq(s, 1, Len(s) - 1))
    ELSE s

Trim(s) == TrimEnd(TrimStart(s))

\* The test without the trim: !prompt.
IsEmpty(s) == s = <<>>

\* !prompt.trim()
IsBlank(s) == Trim(s) = <<>>

\* `data:image/png;base64,${part.inlineData.data}`
DataUrl(data) == <<"data:image/png;base64,", data>>

\* The loop of lines 83-89: the url of the first part with inlineData, or ''.
RECURSIVE FirstImageUrl(_)
FirstImageUrl(parts) ==
    IF parts = <<>> THEN <<>>
    ELSE IF Head(parts).inlineData # NULL THEN DataUrl(Head(parts).inlineData)
    ELSE FirstImageUrl(Tail(parts))

\* response.candidates?.[0]?.content?.parts || []
PartsOf(response) == IF response.hasParts THEN response.parts ELSE <<>>

\* The message shown as it comes, with no fallback.
ErrorTextRaw(message) == message

\* err.message || "An unexpected error occurred during generation."
ErrorText(message) ==
    IF message = NULL \/ message = "" THEN FallbackError ELSE message

\* prev.filter(img => img.id !== id)
RECURSIVE FilterOut(_, _)
FilterOut(h, id) ==
    IF h = <<>> THEN <<>>
    ELSE IF Head(h).id # id THEN <<Head(h)>> \o FilterOut(Tail(h), id)
    ELSE FilterOut(Tail(h), id)

\* The new image put last: [...prev, newImage].
PutLast(img, h) == h \o <<img>>

\* [newImage, ...prev]
Prepend(img, h) == <<img>> \o h

\* The closure values a call of handleGenerate sends and later records.
Capture == [prompt |-> prompt, aspectRatio |-> aspectRatio]

\* The button disabled on a blank prompt only.
DisabledWhenBlank == IsBlank(prompt)

\* disabled={isGenerating || !prompt.trim()}
GenerateDisabled == isGenerating \/ IsBlank(prompt)

\* The image built from the state at the time of the response.
NewImageFromState(request, url, id) ==
    [id |-> id, url |-> url, prompt |-> prompt, timestamp |-> now,
     aspectRatio |-> aspectRatio]

\* newImage of lines 92-98; prompt and aspectRatio are those of the closure of
\* the call, request.
NewImage(request, url, id) ==
    [id |-> id, url |-> url, prompt |-> request.prompt, timestamp |-> now,
     aspectRatio |-> request.aspectRatio]

\* -------------------------------------------------------------- Init
Init ==
    /\ prompt = <<>>
    /\ isGenerating = FALSE
    /\ aspectRatio = "1:1"
    /\ history = <<>>
    /\ selectedImage = <<>>
    /\ error = NULL
    /\ \E key \in EnvKeys : aiRef = IF key \in {NULL, ""} THEN NULL ELSE key
    /\ inflight = <<>>
    /\ now = 0

\* ----------------------------------------------------------- actions
\* Typing that also dismisses the error shown.
SetPromptClearingError(text) ==
    /\ prompt' = text
    /\ error' = NULL
    /\ UNCHANGED <<isGenerating, aspectRatio, history, selectedImage,
                   aiRef, inflight, now>>

SetPrompt(text) ==
    /\ prompt' = text
    /\ UNCHANGED <<isGenerating, aspectRatio, history, selectedImage, error,
                   aiRef, inflight, now>>

SetAspectRatio(value) ==
    /\ aspectRatio' = value
    /\ UNCHANGED <<prompt, isGenerating, history, selectedImage, error,
                   aiRef, inflight, now>>

\* handleGenerate without the test of aiRef.current.
HandleGenerateNoKeyCheck ==
    IF IsBlank(prompt) THEN UNCHANGED vars
    ELSE /\ Len(inflight) < MaxInFlight
         /\ now + Len(inflight) < MaxGenerations
         /\ isGenerating' = TRUE
         /\ error' = NULL
         /\ inflight' = Append(inflight, Capture)
         /\ UNCHANGED <<prompt, aspectRatio, history, selectedImage, aiRef, now>>

\* handleGenerate up to its await.
HandleGenerate ==
    IF IsBlank(prompt) THEN UNCHANGED vars
    ELSE IF aiRef = NULL
    THEN /\ error' = ConfigError
         /\ UNCHANGED <<prompt, isGenerating, aspectRatio, history,
                        selectedImage, aiRef, inflight, now>>
    ELSE /\ Len(inflight) < MaxInFlight
         /\ now + Len(inflight) < MaxGenerations
         /\ isGenerating' = TRUE
         /\ error' = NULL
         /\ inflight' = Append(inflight, Capture)
         /\ UNCHANGED <<prompt, aspectRatio, history, selectedImage, aiRef, now>>

\* The Generate button.
ClickGenerate == ~GenerateDisabled /\ HandleGenerate

Without(s, i) == SubSeq(s, 1, i - 1) \o SubSeq(s, i + 1, Len(s))

\* handleGenerate after its await, the response holding an image.
ResolveWithImage(i, response, id) ==
    /\ i \in 1..Len(inflight)
    /\ FirstImageUrl(PartsOf(response)) # <<>>
    /\ LET newImage == NewImage(inflight[i], FirstImageUrl(PartsOf(response)), id)
       IN  /\ history' = Prepend(newImage, history)
           /\ selectedImage' = <<newImage>>
    /\ prompt' = <<>>
    /\ isGenerating' = FALSE
    /\ inflight' = Without(inflight, i)
    /\ now' = now + 1
    /\ UNCHANGED <<aspectRatio, error, aiRef>>

\* handleGenerate after its await, the response holding no image.
ResolveWithoutImage(i, response) ==
    /\ i \in 1..Len(inflight)
    /\ FirstImageUrl(PartsOf(response)) = <<>>
    /\ error' = ErrorText(NoImageError)
    /\ isGenerating' = FALSE
    /\ inflight' = Without(inflight, i)
    /\ UNCHANGED <<prompt, aspectRatio, history, selectedImage, aiRef, now>>

\* The rejection handled with no finally block.
RejectNoFinally(i, message) ==
    /\ i \in 1..Len(inflight)
    /\ error' = ErrorText(message)
    /\ inflight' = Without(inflight, i)
    /\ UNCHANGED <<prompt, isGenerating, aspectRatio, history, selectedImage,
                   aiRef, now>>

\* handleGenerate after its await, the request rejected.
Reject(i, message) ==
    /\ i \in 1..Len(inflight)
    /\ error' = ErrorText(message)
    /\ isGenerating' = FALSE
    /\ inflight' = Without(inflight, i)
    /\ UNCHANGED <<prompt, aspectRatio, history, selectedImage, aiRef, now>>

\* A history thumbnail.
SelectImage(i) ==
    /\ i \in 1..Len(history)
    /\ selectedImage' = <<history[i]>>
    /\ UNCHANGED <<prompt, isGenerating, aspectRatio, history, error, aiRef,
                   inflight, now>>

\* deleteImage without line 115.
DeleteImageKeepSelected(id) ==
    /\ history' = FilterOut(history, id)
    /\ UNCHANGED <<prompt, isGenerating, aspectRatio, selectedImage, error,
                   aiRef, inflight, now>>

DeleteImage(id) ==
    /\ history' = FilterOut(history, id)
    /\ selectedImage' =
          IF selectedImage # <<>> /\ selectedImage[1].id = id THEN <<>>
          ELSE selectedImage
    /\ UNCHANGED <<prompt, isGenerating, aspectRatio, error, aiRef, inflight, now>>

\* The delete button of the preview.
ClickDelete == selectedImage # <<>> /\ DeleteImage(selectedImage[1].id)

DownloadImage(url, filename) == UNCHANGED vars

\* The download button of the preview.
ClickDownload ==
    /\ selectedImage # <<>>
    /\ DownloadImage(selectedImage[1].url, <<"lumina-", selectedImage[1].id>>)

\* ------------------------------------------------------ specifications
Completion ==
    \/ \E i \in 1..MaxInFlight, r \in Responses, id \in Ids : ResolveWithImage(i, r, id)
    \/ \E i \in 1..MaxInFlight, r \in Responses : ResolveWithoutImage(i, r)
    \/ \E i \in 1..MaxInFlight, m \in FaultMessages : Reject(i, m)

\* The page as the user drives it.
Next ==
    \/ \E text \in Prompts : SetPrompt(text)
    \/ \E value \in ASPECT_RATIOS : SetAspectRatio(value)
    \/ ClickGenerate
    \/ Completion
    \/ \E i \in 1..MaxGenerations : SelectImage(i)
    \/ ClickDelete
    \/ ClickDownload

Spec == Init /\ [][Next]_vars

\* The handlers called with any argument, whatever the page shows.
NextHandlers ==
    \/ Next
    \/ HandleGenerate
    \/ \E id \in Ids : DeleteImage(id)

SpecHandlers == Init /\ [][NextHandlers]_vars
\* ------------------------------------------------------------ claims
\* Vocabulary of the claims, stated apart from the handlers.
HasInlinePayload(response) ==
    /\ response.hasParts
    /\ \E k \in 1..Len(response.parts) : response.parts[k].inlineData # NULL

AllWhitespace(s) == \A k \in 1..Len(s) : s[k] \in Whitespace

HistoryIds == {history[k].id : k \in 1..Len(history)}

\* Request i is settled by response r, whichever way the handler takes it.
Settled(i, r) ==
    \/ ResolveWithoutImage(i, r)
    \/ \E id \in Ids : ResolveWithImage(i, r, id)

\* C1: a request settled by a response that holds an inline image payload
\* prepends exactly one entry to history (the old history follows it
\* unchanged), selects that entry and clears the prompt.
C1_SuccessPrepends ==
    [][Len(inflight') < Len(inflight) =>
          \A i \in 1..Len(inflight), r \in Responses :
             (HasInlinePayload(r) /\ Settled(i, r)) =>
                 /\ Len(history') = Len(history) + 1
                 /\ SubSeq(history', 2, Len(history')) = history
                 /\ history'[1].id \in Ids
                 /\ selectedImage' = <<history'[1]>>
                 /\ prompt' = <<>>]_vars

C1_Witness ==
    /\ Len(history) = 2
    /\ selectedImage = <<history[1]>>
    /\ prompt = <<>>
    /\ history[1].timestamp = 1
    /\ history[1].aspectRatio = "3:4"
    /\ history[2].aspectRatio = "16:9"

\* C2: selectedImage is null or carries the id of an entry of history.
C2_SelectionInHistory ==
    selectedImage = <<>> \/ selectedImage[1].id \in HistoryIds

C2_Witness ==
    /\ selectedImage # <<>>
    /\ Len(history) = 1
    /\ now = 2
    /\ selectedImage[1] = history[1]
    /\ inflight = <<>>

\* C3: isGenerating is true exactly while a request is awaited: from the
\* call that issues it to its outcome, and false before and after.
C3_GeneratingWhileAwaited == isGenerating <=> inflight # <<>>

C3_Witness ==
    /\ isGenerating
    /\ Len(inflight) = 1
    /\ prompt # inflight[1].prompt
    /\ aspectRatio # inflight[1].aspectRatio
    /\ Len(history) = 1

\* C4: with no credential no step sets isGenerating or issues a request, and
\* a call of generate with a valid prompt sets error to the configuration
\* error and leaves every other field as it was.
C4_NoCredential ==
    [][aiRef = NULL =>
          /\ ~isGenerating'
          /\ inflight' = <<>>
          /\ (~AllWhitespace(prompt) /\ ClickGenerate) =>
                /\ error' = ConfigError
                /\ UNCHANGED <<prompt, aspectRatio, history, selectedImage>>]_vars

C4_Witness ==
    /\ aiRef = NULL
    /\ error = ConfigError
    /\ ~AllWhitespace(prompt)
    /\ ~isGenerating

\* C5: a request that ends without an image leaves history, selectedImage and
\* prompt as they were and resets isGenerating; a response with no inline
\* payload sets error to the no-image message, a fault sets it to its message
\* or, when it has none, to the fallback.
C5_FailureOutcomes ==
    [][Len(inflight') < Len(inflight) =>
          /\ \A i \in 1..Len(inflight), r \in Responses :
                (~HasInlinePayload(r) /\ Settled(i, r)) =>
                    /\ error' = NoImageError
                    /\ ~isGenerating'
                    /\ UNCHANGED <<history, selectedImage, prompt>>
          /\ \A i \in 1..Len(inflight), m \in FaultMessages :
                Reject(i, m) =>
                    /\ error' = (IF m \in {NULL, ""} THEN FallbackError ELSE m)
                    /\ ~isGenerating'
                    /\ UNCHANGED <<history, selectedImage, prompt>>]_vars

C5_Witness ==
    /\ error = FallbackError
    /\ ~isGenerating
    /\ Len(history) = 1
    /\ selectedImage = <<history[1]>>
    /\ ~AllWhitespace(prompt)

\* C6: deleteImage(id) removes exactly one entry, the one with that id, and
\* keeps the others in order; it clears the selection when the selected id is
\* id and keeps it otherwise; with no such id it changes nothing.
C6_DeleteRemovesExactlyOne ==
    [][\A id \in Ids :
          DeleteImage(id) =>
              /\ IF id \in HistoryIds
                 THEN \E k \in 1..Len(history) :
                         /\ history[k].id = id
                         /\ history' = Without(history, k)
                 ELSE history' = history
              /\ IF selectedImage # <<>> /\ selectedImage[1].id = id
                 THEN selectedImage' = <<>>
                 ELSE selectedImage' = selectedImage]_vars

\* C7: handleGenerate called with an empty or whitespace-only prompt changes
\* nothing: no field, no request.
C7_BlankPromptNoChange ==
    [][(AllWhitespace(prompt) /\ HandleGenerate) => UNCHANGED vars]_vars

C7_Witness ==
    /\ prompt = <<" ">>
    /\ error = NoImageError
    /\ aiRef # NULL
    /\ Len(inflight) = 1

C9_OneInFlight == Len(inflight) <= 1

C9_Witness ==
    /\ Len(inflight) = 1
    /\ ~AllWhitespace(prompt)
    /\ aspectRatio # inflight[1].aspectRatio
    /\ selectedImage = <<>>
    /\ now = 1

\* C10: a request is issued with the prompt and aspectRatio of the state at
\* the call, and the entry a success creates carries those, not the values at
\* the time of the response; the success resets prompt to the empty string.
C10_EntryRecordsCallValues ==
    [][/\ Len(inflight') > Len(inflight) =>
             inflight'[Len(inflight')] =
                 [prompt |-> prompt, aspectRatio |-> aspectRatio]
       /\ Len(inflight') < Len(inflight) =>
             \A i \in 1..Len(inflight), r \in Responses :
                (\E id \in Ids : ResolveWithImage(i, r, id)) =>
                    /\ history'[1].prompt = inflight[i].prompt
                    /\ history'[1].aspectRatio = inflight[i].aspectRatio
                    /\ prompt' = <<>>]_vars

C10_Witness ==
    /\ Len(history) = 1
    /\ now = 1
    /\ prompt = <<>>
    /\ history[1].prompt = <<" ", "a", " ">>
    /\ history[1].aspectRatio = "9:16"
    /\ aspectRatio = "1:1"
    /\ selectedImage = <<history[1]>>
====
